---- MODULE Spec2Model ----
(***************************************************************************)
(* A model of app.py, the Streamlit ACR MRI QC application: the login      *)
(* gate, the B0 field-homogeneity computation (read_dicom_phase,           *)
(* make_roi_mask, compute_b0_ppm and the Status classification of the B0   *)
(* tab), the manual-entry tabs, the PDF tab and the Settings tab.          *)
(*                                                                         *)
(* Numbers.  Pixel values and ppm values are floats in the program.  Here  *)
(* a pixel value p stands for p / PHASE_SCALE radians and a ppm value q    *)
(* stands for q / PPM_SCALE ppm, so that every value the model handles is  *)
(* an integer and every comparison is exact.  float32 rounding is not      *)
(* modelled.                                                               *)
(***************************************************************************)
EXTENDS Integers, Sequences, FiniteSets, TLC

\* ------------------------------------------------------------------ bounds
Rows == 2
Cols == 14
MaxSlices == 2

\* ------------------------------------------------------- number representation
PHASE_SCALE == 2000
PPM_SCALE == 4

Abs(x) == IF x < 0 THEN -x ELSE x

Pixels == (1..Rows) \X (1..Cols)

RECURSIVE SetSum(_, _)
(* sum of f[x] over the finite set S *)
SetSum(f, S) ==
    IF S = {} THEN 0
    ELSE LET x == CHOOSE y \in S : TRUE
         IN f[x] + SetSum(f, S \ {x})

SetMax(S) == CHOOSE x \in S : \A y \in S : y <= x
SetMin(S) == CHOOSE x \in S : \A y \in S : x <= y

\* ------------------------------------------------------------ make_roi_mask
(***************************************************************************)
(* skimage.filters.threshold_otsu on a float image: an image of one value  *)
(* returns that value; otherwise a 256-bin histogram over [min, max] is    *)
(* taken and the threshold is the centre of the first bin idx that         *)
(* maximises weight1*weight2*(mean1-mean2)^2.  With bin b standing for its *)
(* centre min + (b + 1/2) * (max-min)/256 the quantity is, up to the       *)
(* constant factor ((max-min)/256)^2, N^2 / D with                         *)
(*   D = w1*w2,  N = S1*w2 - S2*w1,                                        *)
(* w1, S1 the number of pixels and the sum of bin numbers in bins <= idx,  *)
(* w2, S2 those in bins > idx.  The quantity only changes at an occupied   *)
(* bin, so the first maximising idx is an occupied bin below 255.          *)
(* The threshold is returned as the fraction num / den.                    *)
(***************************************************************************)
NBINS == 256

BinOf(v, lo, hi) == IF v = hi THEN NBINS - 1 ELSE ((v - lo) * NBINS) \div (hi - lo)

(* N^2 / D as Int + Rem / D, without forming N^2 *)
OtsuVariance(bin, idx) ==
    LET below == {p \in Pixels : bin[p] <= idx}
        above == Pixels \ below
        w1 == Cardinality(below)
        w2 == Cardinality(above)
        S1 == SetSum(bin, below)
        S2 == SetSum(bin, above)
        D  == w1 * w2
        N  == Abs(S1 * w2 - S2 * w1)
        q  == N \div D
        r  == N % D
    IN [Int |-> N * q + q * r + (r * r) \div D, Rem |-> (r * r) % D, D |-> D]

VarLess(a, b) == a.Int < b.Int \/ (a.Int = b.Int /\ a.Rem * b.D < b.Rem * a.D)

threshold_otsu(image) ==
    LET vals == {image[p[1]][p[2]] : p \in Pixels}
        lo == SetMin(vals)
        hi == SetMax(vals)
    IN IF lo = hi
       THEN [num |-> lo, den |-> 1]
       ELSE LET bin == [p \in Pixels |-> BinOf(image[p[1]][p[2]], lo, hi)]
                cand == {bin[p] : p \in Pixels} \ {NBINS - 1}
                var == [i \in cand |-> OtsuVariance(bin, i)]
                idx == CHOOSE i \in cand :
                          \A j \in cand : \/ VarLess(var[j], var[i])
                                          \/ (~VarLess(var[i], var[j]) /\ i <= j)
            IN [num |-> 2 * NBINS * lo + (2 * idx + 1) * (hi - lo), den |-> 2 * NBINS]

(* binary = phase_slice > thresh, as the set of foreground pixels *)
Binarize(image, thresh) == {p \in Pixels : image[p[1]][p[2]] * thresh.den > thresh.num}

(* measure.label: 8-connectivity in 2-D (the default, connectivity = ndim) *)
Adjacent(p, q) == p # q /\ Abs(p[1] - q[1]) <= 1 /\ Abs(p[2] - q[2]) <= 1

(* raster (row-major) position of a pixel *)
Raster(p) == (p[1] - 1) * Cols + p[2]

(* the component of the foreground fg that holds the pixels of S, found from
   its newest pixels, frontier *)
RECURSIVE Grow(_, _, _)
Grow(S, frontier, fg) ==
    LET new == {q \in fg \ S : \E s \in frontier : Adjacent(q, s)}
    IN IF new = {} THEN S ELSE Grow(S \cup new, new, fg)

(* measure.label and measure.regionprops: the connected components of the
   foreground, as a sequence in label order, which is the raster order of each
   component's first pixel *)
RECURSIVE regionprops(_)
regionprops(fg) ==
    IF fg = {} THEN <<>>
    ELSE LET first == CHOOSE p \in fg : \A q \in fg : Raster(p) <= Raster(q)
             comp == Grow({first}, {first}, fg)
         IN <<comp>> \o regionprops(fg \ comp)

(* max(props, key=lambda x: x.area): the first of the largest, in label order *)
Largest(props) ==
    LET best == CHOOSE i \in 1..Len(props) :
                   \A j \in 1..Len(props) :
                       \/ Cardinality(props[j]) < Cardinality(props[i])
                       \/ (Cardinality(props[j]) = Cardinality(props[i]) /\ i <= j)
    IN props[best]

(* morphology.disk(int(0.15*max(mask.shape)//2)) *)
DiskRadius == (15 * (IF Rows > Cols THEN Rows ELSE Cols)) \div 200
disk(r) == {d \in (-r..r) \X (-r..r) : d[1] * d[1] + d[2] * d[2] <= r * r}

(* scipy.ndimage border mode 'reflect' (d c b a | a b c d | d c b a), 1-based *)
Reflect(i, n) ==
    LET m == (i - 1) % (2 * n)
    IN IF m < n THEN m + 1 ELSE 2 * n - m

(* morphology.erosion(mask, footprint): a pixel survives when the whole
   footprint around it lies in the mask *)
erosion(mask, footprint) ==
    {p \in Pixels : \A d \in footprint :
        <<Reflect(p[1] + d[1], Rows), Reflect(p[2] + d[2], Cols)>> \in mask}

(* the mask is the set of pixels where it is True *)
make_roi_mask(phase_slice) ==
    LET thresh == threshold_otsu(phase_slice)
        binary == Binarize(phase_slice, thresh)
        props == regionprops(binary)
    IN IF props = <<>>
       THEN Pixels
       ELSE erosion(Largest(props), disk(DiskRadius))

\* ---------------------------------------------------------- read_dicom_phase
(***************************************************************************)
(* An uploaded file: its name, and what pydicom.dcmread finds in it.  The  *)
(* program reads pixel_array only; InstanceNumber (the slice ordering      *)
(* key), EchoTime (ms) and ImagingFrequency (MHz) are in the file all the  *)
(* same.                                                                   *)
(***************************************************************************)
File(name, key, te, f0, pix) ==
    [name |-> name, InstanceNumber |-> key, EchoTime |-> te,
     ImagingFrequency |-> f0, pixel_array |-> pix]

(* file names in ascending (Python string) order *)
FILENAMES == <<"IM1.dcm", "IM2.dcm", "IM3.dcm", "IM4.dcm">>
NameRank(name) == CHOOSE i \in 1..Len(FILENAMES) : FILENAMES[i] = name

(* sorted(file_list, key=lambda x: x.name): stable, so equal names keep the
   upload order *)
SortedByName(file_list) ==
    LET n == Len(file_list)
        before(j, i) == \/ NameRank(file_list[j].name) < NameRank(file_list[i].name)
                        \/ /\ NameRank(file_list[j].name) = NameRank(file_list[i].name)
                           /\ j < i
        pos(i) == 1 + Cardinality({j \in 1..n : before(j, i)})
    IN [k \in 1..n |-> file_list[CHOOSE i \in 1..n : pos(i) = k]]

(* the stack: one pixel array per file, in file-name order *)
read_dicom_phase(file_list) ==
    LET sorted == SortedByName(file_list)
    IN [k \in 1..Len(file_list) |-> sorted[k].pixel_array]

\* ------------------------------------------------------------ compute_b0_ppm
(* phase_diff = te2_stack[idx] - te1_stack[idx] *)
PhaseDiff(te1_slice, te2_slice) ==
    [r \in 1..Rows |-> [c \in 1..Cols |-> te2_slice[r][c] - te1_slice[r][c]]]

(* ppm_slice = phase_diff*1e3: the number of radians times 1000, read as ppm *)
ToPpm(phase_diff) ==
    [r \in 1..Rows |-> [c \in 1..Cols |-> (phase_diff[r][c] * 1000 * PPM_SCALE) \div PHASE_SCALE]]

(* The loop of compute_b0_ppm from slice idx on.  te2_stack[idx] raises
   IndexError past the end of te2_stack, and np.max raises ValueError on an
   empty selection. *)
RECURSIVE B0Loop(_, _, _, _, _)
B0Loop(te1_stack, te2_stack, idx, ppm_max_list, slice_imgs) ==
    IF idx > Len(te1_stack)
    THEN [kind |-> "result", max_ppm_list |-> ppm_max_list, slice_imgs |-> slice_imgs]
    ELSE IF idx > Len(te2_stack)
    THEN [kind |-> "exception", error |-> "IndexError"]
    ELSE LET phase_diff == PhaseDiff(te1_stack[idx], te2_stack[idx])
             mask == make_roi_mask(phase_diff)
             ppm_slice == ToPpm(phase_diff)
         IN IF mask = {}
            THEN [kind |-> "exception", error |-> "ValueError"]
            ELSE LET ppm_max == SetMax({ppm_slice[p[1]][p[2]] : p \in mask})
                 IN B0Loop(te1_stack, te2_stack, idx + 1,
                           Append(ppm_max_list, ppm_max),
                           Append(slice_imgs, [ppm_slice |-> ppm_slice, mask |-> mask]))

compute_b0_ppm(te1, te2) ==
    B0Loop(read_dicom_phase(te1), read_dicom_phase(te2), 1, <<>>, <<>>)

\* ------------------------------------------------------------------ settings
DATA_PATH == "./ACR_QC_Data"
(* os.path.join(DATA_PATH, "Reports"): a path is the tuple of its parts *)
REPORTS_PATH == <<DATA_PATH, "Reports">>

ALL_TESTS == <<"B0", "Uniformity", "HCR", "SliceThickness", "SlicePosition",
               "Distortion", "LowContrast", "SNR_Ghosting", "CF_Gain">>

(* B0_ppm is 0.5 ppm; the other limits are whole numbers *)
ACTION_LIMITS ==
    [B0_ppm |-> PPM_SCALE \div 2,
     Uniformity_percent |-> 87,
     HCR_lp |-> 1,
     SliceThickness_mm |-> 1,
     SlicePosition_mm |-> 1,
     Distortion_mm |-> 1,
     LowContrast_min |-> 3,
     SNR_min |-> 40]

(* hashlib.sha256(password.encode()).hexdigest(), on the passwords typed in
   this model *)
sha256(password) ==
    CASE password = "password1" ->
           "0b14d501a594442a01c6859541bcb3e8164d183d32937b851835442f69d5c94e"
      [] password = "password2" ->
           "6cf615d5bcaac778352a8f1f3360d23f02f34ec182e259897fd6ce485d7870d4"
      [] password = "wrong" ->
           "8810ad581e59f2bc3928b261707a71308f7e139eb04820366dc4d5c18d980225"
      [] password = "" ->
           "e3b0c44298fc1c149afbf4c8996fb92427ae41e4649b934ca495991b7852b855"

USERS ==
    [physicist1 |-> sha256("password1"),
     physicist2 |-> sha256("password2")]

USER_REPOS ==
    [physicist1 |-> "./ACR_QC_Repo_Physicist1",
     physicist2 |-> "./ACR_QC_Repo_Physicist2"]

DEFAULT_REPO == "./ACR_QC_Repo"

(* check_password without the comparison of the password's hash *)
check_password_anypass(username, password) == username \in DOMAIN USERS

check_password(username, password) ==
    username \in DOMAIN USERS /\ sha256(password) = USERS[username]

\* --------------------------------------------------------------------- state
VARIABLES
    authenticated,   \* st.session_state.authenticated
    username,        \* st.session_state.username ("" while not set)
    user_repo_path,  \* st.session_state.user_repo_path
    metrics_store,   \* st.session_state.metrics_store: test name -> entry
    login_form,      \* the Username and Password text inputs
    te1_files,       \* the "Upload Phase Images TE1" uploader, in upload order
    te2_files,       \* the "Upload Phase Images TE2" uploader, in upload order
    b0_out,          \* what the B0 tab did in the last script run
    csv_files,       \* DATA_PATH/<test>/<date>_<test>.csv: test name -> row
    pdf_out          \* what the PDF tab did in the last script run

vars == <<authenticated, username, user_repo_path, metrics_store, login_form,
          te1_files, te2_files, b0_out, csv_files, pdf_out>>

(* d with d[key] = value, as a Python dict assignment *)
DictSet(d, key, value) ==
    [k \in DOMAIN d \cup {key} |-> IF k = key THEN value ELSE d[k]]

EmptyDict == [k \in {} |-> {}]

NoB0 == [kind |-> "none"]
NoPdf == <<>>

Init ==
    /\ authenticated = FALSE
    /\ username = ""
    /\ user_repo_path = DEFAULT_REPO
    /\ metrics_store = EmptyDict
    /\ login_form = [username |-> "", password |-> ""]
    /\ te1_files = <<>>
    /\ te2_files = <<>>
    /\ b0_out = NoB0
    /\ csv_files = EmptyDict
    /\ pdf_out = NoPdf

\* ------------------------------------------------------------ authentication
(* what is typed: only physicist1 / password1 is a valid pair *)
Usernames == {"physicist1", "physicist2", "guest"}
Passwords == {"password1", "wrong"}

(* typing into the Username / Password inputs of the login page *)
EnterCredentials(u, p) ==
    /\ ~authenticated
    /\ login_form' = [username |-> u, password |-> p]
    /\ UNCHANGED <<authenticated, username, user_repo_path, metrics_store,
                   te1_files, te2_files, b0_out, csv_files, pdf_out>>

(* the Login button *)
ClickLogin ==
    /\ ~authenticated
    /\ IF check_password(login_form.username, login_form.password)
       THEN /\ authenticated' = TRUE
            /\ username' = login_form.username
            /\ user_repo_path' =
                 IF login_form.username \in DOMAIN USER_REPOS
                 THEN USER_REPOS[login_form.username] ELSE DEFAULT_REPO
       ELSE UNCHANGED <<authenticated, username, user_repo_path>>
    /\ UNCHANGED <<metrics_store, login_form, te1_files, te2_files, b0_out,
                   csv_files, pdf_out>>

\* -------------------------------------------------------------------- B0 tab
(* a change of the TE1 / TE2 uploader: a script run without a button *)
UploadTE1(series) ==
    /\ authenticated
    /\ te1_files' = series
    /\ b0_out' = NoB0
    /\ pdf_out' = NoPdf
    /\ UNCHANGED <<authenticated, username, user_repo_path, metrics_store,
                   login_form, te2_files, csv_files>>

UploadTE2(series) ==
    /\ authenticated
    /\ te2_files' = series
    /\ b0_out' = NoB0
    /\ pdf_out' = NoPdf
    /\ UNCHANGED <<authenticated, username, user_repo_path, metrics_store,
                   login_form, te1_files, csv_files>>

(* np.nanmax of a list that holds no NaN: compute_b0_ppm takes each entry with
   np.max over a non-empty selection of finite values *)
nanmax(list) == SetMax({list[i] : i \in 1..Len(list)})

(* B0Status with the comparison made strict *)
B0Status_strict(max_ppm_list) ==
    IF nanmax(max_ppm_list) < ACTION_LIMITS.B0_ppm THEN "PASS" ELSE "FAIL"

B0Status(max_ppm_list) ==
    IF nanmax(max_ppm_list) <= ACTION_LIMITS.B0_ppm THEN "PASS" ELSE "FAIL"

(* the "Compute B0 Metrics" button; an exception raised by compute_b0_ppm ends
   the script run before metrics_store is assigned *)
ComputeB0 ==
    /\ authenticated
    /\ LET out == IF te1_files = <<>> \/ te2_files = <<>>
                  THEN [kind |-> "warning"]
                  ELSE compute_b0_ppm(te1_files, te2_files)
       IN /\ b0_out' = out
          /\ metrics_store' =
               IF out.kind = "result"
               THEN DictSet(metrics_store, "B0",
                            [Max_ppm_per_slice |-> out.max_ppm_list,
                             Status |-> B0Status(out.max_ppm_list)])
               ELSE metrics_store
    /\ pdf_out' = NoPdf
    /\ UNCHANGED <<authenticated, username, user_repo_path, login_form,
                   te1_files, te2_files, csv_files>>

\* ------------------------------------------------------- manual-entry tabs
Min(a, b) == IF a <= b THEN a ELSE b

(* metrics_store[test] = entry; st.session_state.metrics_store = metrics_store;
   save_metrics_csv(test, pd.DataFrame([entry])) *)
Record(test, entry) ==
    /\ metrics_store' = DictSet(metrics_store, test, entry)
    /\ csv_files' = DictSet(csv_files, test, entry)
    /\ b0_out' = NoB0
    /\ pdf_out' = NoPdf
    /\ UNCHANGED <<authenticated, username, user_repo_path, login_form,
                   te1_files, te2_files>>

SubmitUniformity(t1_val, t2_val) ==
    /\ authenticated
    /\ LET status == IF Min(t1_val, t2_val) >= ACTION_LIMITS.Uniformity_percent
                     THEN "PASS" ELSE "FAIL"
       IN Record("Uniformity", [T1 |-> t1_val, T2 |-> t2_val, Status |-> status])

SubmitHCR(t1_hcr, t2_hcr) ==
    /\ authenticated
    /\ LET status == IF Min(t1_hcr, t2_hcr) >= ACTION_LIMITS.HCR_lp
                     THEN "PASS" ELSE "FAIL"
       IN Record("HCR", [T1 |-> t1_hcr, T2 |-> t2_hcr, Status |-> status])

SubmitSliceThickness(t1_st, t2_st) ==
    /\ authenticated
    /\ LET status == IF \A x \in {t1_st, t2_st} :
                            Abs(x - 5) <= ACTION_LIMITS.SliceThickness_mm
                     THEN "PASS" ELSE "FAIL"
       IN Record("SliceThickness", [T1 |-> t1_st, T2 |-> t2_st, Status |-> status])

SubmitSlicePosition(t1_sp, t2_sp) ==
    /\ authenticated
    /\ LET status == IF \A x \in {t1_sp, t2_sp} :
                            Abs(x) <= ACTION_LIMITS.SlicePosition_mm
                     THEN "PASS" ELSE "FAIL"
       IN Record("SlicePosition", [T1 |-> t1_sp, T2 |-> t2_sp, Status |-> status])

SubmitDistortion(dist_val) ==
    /\ authenticated
    /\ LET status == IF dist_val <= ACTION_LIMITS.Distortion_mm
                     THEN "PASS" ELSE "FAIL"
       IN Record("Distortion", [MaxDistortion_mm |-> dist_val, Status |-> status])

SubmitLowContrast(lc_val) ==
    /\ authenticated
    /\ LET status == IF lc_val >= ACTION_LIMITS.LowContrast_min
                     THEN "PASS" ELSE "FAIL"
       IN Record("LowContrast", [ObjectsVisible |-> lc_val, Status |-> status])

SubmitSNR(snr_val) ==
    /\ authenticated
    /\ LET status == IF snr_val >= ACTION_LIMITS.SNR_min THEN "PASS" ELSE "FAIL"
       IN Record("SNR_Ghosting", [SNR |-> snr_val, Status |-> status])

SubmitCFGain(cf_val, gain_val) ==
    /\ authenticated
    /\ Record("CF_Gain", [CF |-> cf_val, Gain |-> gain_val, Status |-> "N/A"])

\* ------------------------------------------------------------------- PDF tab
REPORT_NAME == "<date>_ACR_QC_Report.pdf"

(* generate_pdf: the file written, os.path.join(save_dir, filename).  The
   pages it lays out from metrics_dict are not part of the state, and neither is
   the directory's earlier content. *)
generate_pdf(metrics_dict, filename, save_dir) == Append(save_dir, filename)

(* the "Generate PDF" button.  The "Commit PDF" checkbox is created inside the
   button's branch, so it is unchecked in the only run that reads it and the git
   commands never run. *)
GeneratePDF(save_option) ==
    /\ authenticated
    /\ LET save_dir == IF save_option = "Locally" THEN REPORTS_PATH
                       ELSE <<user_repo_path, "Reports">>
           pdf_path == generate_pdf(metrics_store, REPORT_NAME, save_dir)
       IN pdf_out' = pdf_path
    /\ b0_out' = NoB0
    /\ UNCHANGED <<authenticated, username, user_repo_path, metrics_store,
                   login_form, te1_files, te2_files, csv_files>>

\* -------------------------------------------------------------- Settings tab
(* the "Change user-defined GitHub repo" text input *)
ChangeRepo(new_repo) ==
    /\ authenticated
    /\ new_repo # user_repo_path
    /\ user_repo_path' = new_repo
    /\ b0_out' = NoB0
    /\ pdf_out' = NoPdf
    /\ UNCHANGED <<authenticated, username, metrics_store, login_form,
                   te1_files, te2_files, csv_files>>

\* ---------------------------------------------------------------- the inputs
(* images: a band of value v over columns lo..hi on a background bg *)
Band(lo, hi, v, bg) ==
    [r \in 1..Rows |-> [c \in 1..Cols |-> IF lo <= c /\ c <= hi THEN v ELSE bg]]

Zero == Band(1, 0, 0, 0)
Phantom(v) == Band(4, Cols - 3, v, -5)
(* a phantom one column wide: smaller than the erosion element *)
Speck == Band(7, 7, 1, -5)
(* a phantom whose pixels alternate between -3 and 1 *)
Mixed ==
    [r \in 1..Rows |-> [c \in 1..Cols |->
        IF 4 <= c /\ c <= Cols - 3 THEN (IF c % 2 = 0 THEN -3 ELSE 1) ELSE -40]]
(* phases of +3 rad and -3 rad: either side of the wrap at pi *)
PlusPi == Band(4, Cols - 3, 3 * PHASE_SCALE, 0)
MinusPi == Band(4, Cols - 3, -3 * PHASE_SCALE, 0)

Echo1Images == {Zero, PlusPi}
Echo2Images == {Zero, Phantom(2), Mixed, Speck, MinusPi}

SeqsUpTo(S, n) == UNION {[1..k -> S] : k \in 0..n}

(* a series as exported by the scanner: file i is named FILENAMES[i] and holds
   slice i *)
Series(imgs, te, f0) ==
    [i \in 1..Len(imgs) |-> File(FILENAMES[i], i, te, f0, imgs[i])]
(* the same files uploaded in the opposite order *)
Reversed(s) == [i \in 1..Len(s) |-> s[Len(s) + 1 - i]]
(* the same pixel data in files whose names run against the slice order *)
Renamed(s) == [i \in 1..Len(s) |-> [s[i] EXCEPT !.name = FILENAMES[Len(s) + 1 - i]]]

Echo1Series == {Series(imgs, 10, 64) : imgs \in SeqsUpTo(Echo1Images, MaxSlices)}

Echo2Series ==
    LET base == {Series(imgs, 20, 64) : imgs \in SeqsUpTo(Echo2Images, MaxSlices)}
        some == {Series(imgs, 20, 64) :
                    imgs \in SeqsUpTo({Phantom(1), Phantom(2)}, MaxSlices)}
        meta == {Series(imgs, a[1], a[2]) :
                    imgs \in SeqsUpTo({Phantom(1)}, MaxSlices),
                    a \in {<<30, 64>>, <<20, 128>>, <<30, 128>>}}
    IN base \cup some \cup {Reversed(s) : s \in some} \cup {Renamed(s) : s \in some}
            \cup meta

(* one-slice series, for the specification of the whole session *)
Echo1Single == {<<>>, Series(<<Zero>>, 10, 64)}
Echo2Single == {<<>>, Series(<<Phantom(2)>>, 20, 64)}

\* ------------------------------------------------------------ specifications
Login ==
    \/ \E u \in Usernames, p \in Passwords : EnterCredentials(u, p)
    \/ ClickLogin

(* one value per number input: the B0 tab is where the inputs vary *)
ManualTabs ==
    \/ SubmitUniformity(87, 100)
    \/ SubmitHCR(1, 0)
    \/ SubmitSliceThickness(4, 6)
    \/ SubmitSlicePosition(0, 2)
    \/ SubmitDistortion(1)
    \/ SubmitLowContrast(2)
    \/ SubmitSNR(40)
    \/ SubmitCFGain(64, 0)

(* the whole application, on one-slice uploads *)
Next ==
    \/ Login
    \/ \E s \in Echo1Single : UploadTE1(s)
    \/ \E s \in Echo2Single : UploadTE2(s)
    \/ ComputeB0
    \/ ManualTabs
    \/ \E o \in {"Locally", "User-defined Repo"} : GeneratePDF(o)
    \/ ChangeRepo(DEFAULT_REPO)

Spec == Init /\ [][Next]_vars

(* The B0 computation on multi-slice uploads: the session is logged in and
   both series are uploaded, and the button is clicked. *)
InitB0 ==
    /\ authenticated = TRUE
    /\ username = "physicist1"
    /\ user_repo_path = USER_REPOS[username]
    /\ metrics_store = EmptyDict
    /\ login_form = [username |-> "physicist1", password |-> "password1"]
    /\ te1_files \in Echo1Series
    /\ te2_files \in Echo2Series
    /\ b0_out = NoB0
    /\ csv_files = EmptyDict
    /\ pdf_out = NoPdf

NextB0 == ComputeB0

SpecB0 == InitB0 /\ [][NextB0]_vars

\* ==================================================================== claims
(***************************************************************************)
(* What the properties below read off a state.  After ComputeB0 the        *)
(* uploaders still hold the files the computation was given.               *)
(***************************************************************************)
Te1Stack == read_dicom_phase(te1_files)
Te2Stack == read_dicom_phase(te2_files)
(* the button was clicked with both series uploaded *)
Computed == b0_out.kind \in {"result", "exception"}
(* the slices both stacks have *)
Paired == 1..Min(Len(te1_files), Len(te2_files))
SliceDiff(i) == PhaseDiff(Te1Stack[i], Te2Stack[i])
(* binarization at the threshold leaves no foreground component *)
NoForeground(image) == Binarize(image, threshold_otsu(image)) = {}
B0Passed == "B0" \in DOMAIN metrics_store /\ metrics_store["B0"].Status = "PASS"

(* C1: when no slice yields a detected phantom (no slice's thresholded image
   has a foreground component), the B0 computation does not end in a PASS: it
   ends in a failure outcome. *)
C1_NoPhantomNeverPass ==
    (/\ Computed
     /\ Len(te1_files) = Len(te2_files)
     /\ \A i \in Paired : NoForeground(SliceDiff(i)))
    => (b0_out.kind # "result" /\ ~B0Passed)

(* C2: the stored B0 Status is PASS exactly when the maximum of the per-slice
   metrics is at most the action limit (0.5 ppm), equality included, and FAIL
   otherwise; the stored list is the one compute_b0_ppm returned. *)
C2_StatusIffWithinLimit ==
    "B0" \in DOMAIN metrics_store =>
        LET entry == metrics_store["B0"]
            list == entry.Max_ppm_per_slice
            value == CHOOSE v \in {list[i] : i \in 1..Len(list)} :
                        \A i \in 1..Len(list) : list[i] <= v
        IN /\ Len(list) >= 1
           /\ b0_out.kind = "result" => list = b0_out.max_ppm_list
           /\ (entry.Status = "PASS") <=> (2 * value <= PPM_SCALE)
           /\ (entry.Status = "FAIL") <=> (2 * value > PPM_SCALE)

(* C2's case: a computation over several slices whose global value is exactly
   the limit, classified PASS *)
C2_Witness ==
    /\ b0_out.kind = "result"
    /\ Len(b0_out.max_ppm_list) >= 2
    /\ \E i \in 1..Len(b0_out.max_ppm_list) : 2 * b0_out.max_ppm_list[i] = PPM_SCALE
    /\ \A i \in 1..Len(b0_out.max_ppm_list) : 2 * b0_out.max_ppm_list[i] <= PPM_SCALE
    /\ B0Passed

(* C3: for every slice with a non-empty ROI the per-slice metric is the
   maximum of the absolute ppm values over the ROI. *)
C3_MetricIsMaxAbs ==
    b0_out.kind = "result" =>
        \A i \in 1..Len(b0_out.slice_imgs) :
            LET img == b0_out.slice_imgs[i]
            IN img.mask # {} =>
                 b0_out.max_ppm_list[i] =
                     SetMax({Abs(img.ppm_slice[p[1]][p[2]]) : p \in img.mask})

(* C4: a slice whose binarization has no foreground component gets an
   all-false mask from make_roi_mask. *)
C4_NoForegroundEmptyMask ==
    b0_out.kind = "result" =>
        \A i \in 1..Len(b0_out.slice_imgs) :
            NoForeground(SliceDiff(i)) => b0_out.slice_imgs[i].mask = {}

(* C5: when some but not all slices have an empty interior ROI,
   compute_b0_ppm does not raise, and the global value is the maximum over the
   slices whose ROI is not empty. *)
C5_EmptyRoiSkipped ==
    LET empty == {i \in Paired : make_roi_mask(SliceDiff(i)) = {}}
        kept == Paired \ empty
    IN (/\ Computed
        /\ Len(te1_files) = Len(te2_files)
        /\ empty # {}
        /\ kept # {})
       => /\ b0_out.kind = "result"
          /\ "B0" \in DOMAIN metrics_store
          /\ LET ppm(i) == ToPpm(SliceDiff(i))
                 metric(i) == SetMax({ppm(i)[p[1]][p[2]] : p \in make_roi_mask(SliceDiff(i))})
                 value == SetMax({metric(i) : i \in kept})
             IN (metrics_store["B0"].Status = "PASS") <=> (2 * value <= PPM_SCALE)

(* C6: when the two series differ in their number of slices, compute_b0_ppm
   fails: it returns no result and no Status is stored. *)
C6_SliceCountMismatchFails ==
    (Computed /\ Len(te1_files) # Len(te2_files))
    => (b0_out.kind = "exception" /\ "B0" \notin DOMAIN metrics_store)

(* pi, in pixel units, rounded down: an integer d is in (-pi, pi] exactly when
   -PiScaled <= d <= PiScaled *)
PiScaled == (314159 * PHASE_SCALE) \div 100000
InPhaseRange(d) == -PiScaled <= d /\ d <= PiScaled

(* C7: for phases of the two echoes that each lie in (-pi, pi], the phase
   difference compute_b0_ppm uses lies in (-pi, pi] too; the ppm map is that
   difference times 1e3. *)
C7_DifferenceWrapped ==
    b0_out.kind = "result" =>
        \A i \in 1..Len(b0_out.slice_imgs) : \A p \in Pixels :
            (/\ InPhaseRange(Te1Stack[i][p[1]][p[2]])
             /\ InPhaseRange(Te2Stack[i][p[1]][p[2]]))
            => /\ InPhaseRange(SliceDiff(i)[p[1]][p[2]])
               /\ Abs(b0_out.slice_imgs[i].ppm_slice[p[1]][p[2]])
                    <= (PiScaled * 1000 * PPM_SCALE) \div PHASE_SCALE

(* the same files, acquired with another echo time and imaging frequency *)
Acquired(file_list, te, f0) ==
    [i \in 1..Len(file_list) |->
        [file_list[i] EXCEPT !.EchoTime = te, !.ImagingFrequency = f0]]

(* C8: the ppm map depends on deltaTE and f0: for the same phase data,
   doubling deltaTE halves every ppm value, and so does doubling f0. *)
C8_PpmScalesWithAcquisition ==
    b0_out.kind = "result" =>
        LET te1 == te1_files[1].EchoTime
            dTE == te2_files[1].EchoTime - te1
            f0 == te2_files[1].ImagingFrequency
            longer == compute_b0_ppm(Acquired(te1_files, te1, f0),
                                     Acquired(te2_files, te1 + 2 * dTE, f0))
            higher == compute_b0_ppm(Acquired(te1_files, te1, 2 * f0),
                                     Acquired(te2_files, te1 + dTE, 2 * f0))
        IN \A i \in 1..Len(b0_out.slice_imgs) : \A p \in Pixels :
               LET ppm == b0_out.slice_imgs[i].ppm_slice[p[1]][p[2]]
               IN /\ 2 * longer.slice_imgs[i].ppm_slice[p[1]][p[2]] = ppm
                  /\ 2 * higher.slice_imgs[i].ppm_slice[p[1]][p[2]] = ppm

(* the pixel arrays of the files in ascending order of InstanceNumber *)
ByKey(file_list) ==
    LET n == Len(file_list)
        pos(i) == 1 + Cardinality({j \in 1..n :
                        file_list[j].InstanceNumber < file_list[i].InstanceNumber})
    IN [k \in 1..n |-> file_list[CHOOSE i \in 1..n : pos(i) = k].pixel_array]

(* C9: whatever the upload order and the file names, each volume lists its
   slices in ascending order of the slice ordering key, so that the i-th field
   map comes from the i-th slice of each echo. *)
C9_SlicesOrderedByKey ==
    b0_out.kind = "result" =>
        /\ Te1Stack = ByKey(te1_files)
        /\ Te2Stack = ByKey(te2_files)
        /\ \A i \in 1..Len(b0_out.slice_imgs) :
               b0_out.slice_imgs[i].ppm_slice =
                   ToPpm(PhaseDiff(ByKey(te1_files)[i], ByKey(te2_files)[i]))

(* C10: nothing is stored in metrics_store, no CSV is saved and no PDF is
   generated while the session is not authenticated; authenticated becomes
   true only on a login whose username is in USERS and whose password hashes
   to that user's digest; once true it stays true. *)
C10_AuthenticationGate ==
    /\ [](~authenticated =>
            (metrics_store = EmptyDict /\ csv_files = EmptyDict /\ pdf_out = NoPdf))
    /\ [][/\ (\/ metrics_store' # metrics_store
              \/ csv_files' # csv_files
              \/ pdf_out' # NoPdf) => authenticated
          /\ (~authenticated /\ authenticated') =>
                /\ login_form.username \in {"physicist1", "physicist2"}
                /\ sha256(login_form.password) = USERS[login_form.username]
                /\ username' = login_form.username
          /\ authenticated => authenticated']_vars

(* C10's case: in an authenticated session a B0 result is stored, a CSV is
   saved and a PDF is generated *)
C10_Witness ==
    /\ authenticated
    /\ "B0" \in DOMAIN metrics_store
    /\ "Uniformity" \in DOMAIN csv_files
    /\ pdf_out # NoPdf

====
